---- MODULE Spec2Model ----
(***************************************************************************)
(* A model of awsrestore: the package import (src/awsrestore/__init__.py)  *)
(* and the Vault class (src/awsrestore/vault.py), a facade that turns each *)
(* method call into a fixed sequence of calls to the AWS Backup service.   *)
(*                                                                         *)
(* Python values: an optional value is a sequence, None is <<>> and the    *)
(* value v is <<v>>.  A dict is a record.  An external call either returns *)
(* a response or raises; what the service answers is an input of the       *)
(* operation (the record svc).                                             *)
(***************************************************************************)
EXTENDS Integers, Sequences, FiniteSets, TLC

VARIABLES
  module,             \* how far `import awsrestore` got
  defaults,           \* the default arguments evaluated when class Vault was defined
  stdout,             \* lines printed by check_aws_credentials
  identityAvailable,  \* whether sts.get_caller_identity() answers right now
  vault,              \* the Vault object the caller holds (None before construction)
  jobs,               \* restore and copy jobs existing in the Backup service
  last                \* the call that just finished: its arguments, the external
                      \* calls it issued in order, and how it ended

vars == <<module, defaults, stdout, identityAvailable, vault, jobs, last>>

\* ------------------------------------------------------------------ bounds

MaxJobs == 2    \* jobs the Backup service accepts before the model stops submitting
MaxDate == 2    \* dates are days 0..MaxDate counted from 2015-01-01

\* ------------------------------------------------------- Python primitives

None == <<>>
Some(v) == <<v>>

\* bool(v) of an optional string: None and '' are falsy
Truthy(v) == v # None /\ v[1] # ""

\* '{v}' inside an f-string: str(None) is 'None'
Format(v) == IF v = None THEN "None" ELSE v[1]

Digits == <<"0", "1", "2", "3", "4", "5", "6", "7", "8", "9">>

\* str(n) of a non-negative int
RECURSIVE Str(_)
Str(n) == IF n < 10 THEN Digits[n + 1] ELSE Str(n \div 10) \o Digits[(n % 10) + 1]

RECURSIVE Pow2(_)
Pow2(k) == IF k = 0 THEN 1 ELSE 2 * Pow2(k - 1)

\* n.bit_length()
RECURSIVE BitLen(_)
BitLen(n) == IF n = 0 THEN 0 ELSE 1 + BitLen(n \div 2)

\* ------------------------------------------------- byte counts and floats
\* BackupSizeInBytes is a 64-bit count.  It is held as two limbs,
\* [gib, rem] standing for gib * 2^30 + rem with 0 <= rem < 2^30, so that
\* every number the model computes with stays below 2^31.

KiB == 1024
LimbBits == 3 * (BitLen(KiB) - 1)
Limb == KiB * KiB * KiB
MantBits == 53      \* significand of a Python float (IEEE 754 binary64)

Bytes(gib, rem) == [gib |-> gib, rem |-> rem]

\* The float nearest to the integer n, ties to even (what int/int true
\* division rounds to when the divisor is a power of two).  From 2^53 on the
\* low bits of n are dropped; below 2^61 they all lie in the low limb.
RoundToDouble(n) ==
  LET bits == IF n.gib = 0 THEN BitLen(n.rem) ELSE BitLen(n.gib) + LimbBits
      drop == bits - MantBits
  IN  IF drop <= 0 THEN n
      ELSE LET unit == Pow2(drop)
               low  == n.rem % unit
               kept == n.rem - low
               half == unit \div 2
               up   == low > half \/ (low = half /\ (kept \div unit) % 2 = 1)
               rem2 == IF up THEN kept + unit ELSE kept
           IN  IF rem2 = Limb THEN Bytes(n.gib + 1, 0) ELSE Bytes(n.gib, rem2)

\* A float is [sig, exp] standing for sig * 2^exp, sig of at most 53 bits.
\* int / 1024
TrueDivKiB(n) == [sig |-> RoundToDouble(n), exp |-> 0 - (BitLen(KiB) - 1)]

\* float / 1024: exact, only the exponent moves
FloatDivKiB(x) == [x EXCEPT !.exp = @ - (BitLen(KiB) - 1)]

\* int(x) of a non-negative float: truncation
PyInt(x) ==
  LET shift == 0 - x.exp
  IN  IF shift >= LimbBits
      THEN x.sig.gib \div Pow2(shift - LimbBits)
      ELSE x.sig.gib * Pow2(LimbBits - shift) + (x.sig.rem \div Pow2(shift))

\* ------------------------------------------------------ external services

IdentityAccount == "111111111111"   \* what sts.get_caller_identity() reports
OtherAccount == "222222222222"

\* One external call: the boto3 method, its keyword arguments, whether it
\* returned, and the response (or the error it raised).
Call(op, request, ok, response) ==
  [op |-> op, request |-> request, ok |-> ok, response |-> response]

ServiceError == [Error |-> "ServiceUnavailable"]

\* How a method call ends.
Returned(calls, value) == [calls |-> calls, outcome |-> "returned", value |-> value]
Raised(calls, error) == [calls |-> calls, outcome |-> "raised", value |-> error]

JobId(n) == "job-" \o Str(n)

\* A job exists in the service once a start_* call has returned.
StartOps == {"start_restore_job", "start_copy_job"}
JobsStarted(calls) ==
  {[id |-> calls[i].response.JobId, op |-> calls[i].op] :
     i \in {k \in 1..Len(calls) : calls[k].ok /\ calls[k].op \in StartOps}}

\* ------------------------------------------------------------- class Vault

ServiceRole(self) ==
  "arn:aws:iam::" \o Format(self.account) \o ":role/service-role/AWSBackupDefaultServiceRole"

\* Vault.__init__: stores its arguments
VaultInit(vault_name, account, region) ==
  [vault_name |-> vault_name, account |-> account, region |-> region]

\* Vault.list_backups, with the date range checked first
list_backups_validating(self, resource_type, created_before, created_after, svc) ==
  IF created_after > created_before
  THEN Raised(<<>>, [Error |-> "InvalidArgument"])
  ELSE LET c == Call("list_recovery_points_by_backup_vault",
                     [BackupVaultName |-> self.vault_name,
                      ByCreatedBefore |-> created_before,
                      ByCreatedAfter |-> created_after],
                     svc.list_ok,
                     IF svc.list_ok THEN [RecoveryPoints |-> svc.found] ELSE ServiceError)
       IN  IF c.ok THEN Returned(<<c>>, c.response) ELSE Raised(<<c>>, c.response)

\* Vault.list_backups
list_backups(self, resource_type, created_before, created_after, svc) ==
  LET request ==
        IF resource_type = "All"
        THEN [BackupVaultName |-> self.vault_name,
              ByCreatedBefore |-> created_before,
              ByCreatedAfter |-> created_after]
        ELSE [BackupVaultName |-> self.vault_name,
              ByResourceType |-> resource_type,
              ByCreatedBefore |-> created_before,
              ByCreatedAfter |-> created_after]
      c == Call("list_recovery_points_by_backup_vault", request, svc.list_ok,
                IF svc.list_ok THEN [RecoveryPoints |-> svc.found] ELSE ServiceError)
  IN  IF c.ok THEN Returned(<<c>>, c.response) ELSE Raised(<<c>>, c.response)

\* the destination ARN with account and region in each other's place
DestinationBackupVaultArn_swapped(region, dest_account, destination_vault) ==
  "arn:aws:backup:" \o Format(dest_account) \o ":" \o region
     \o ":backup-vault:" \o destination_vault

\* f'arn:aws:backup:{region}:{dest_account}:backup-vault:{destination_vault}'
DestinationBackupVaultArn(region, dest_account, destination_vault) ==
  "arn:aws:backup:" \o region \o ":" \o Format(dest_account)
     \o ":backup-vault:" \o destination_vault

start_copy_job(self, destination_vault, recovery_point, region, dest_account, retention_period, ok, job_id) ==
  Call("start_copy_job",
       [RecoveryPointArn |-> recovery_point,
        SourceBackupVaultName |-> self.vault_name,
        DestinationBackupVaultArn |->
          DestinationBackupVaultArn(region, dest_account, destination_vault),
        IamRoleArn |-> ServiceRole(self),
        Lifecycle |-> [DeleteAfterDays |-> retention_period]],
       ok,
       IF ok THEN [JobId |-> job_id, CopyJobId |-> job_id] ELSE ServiceError)

\* Vault.copy_backups that submits once more when the submission fails
copy_backups_retry(self, destination_vault, recovery_point, region, dest_account, retention_period, svc) ==
  LET c == start_copy_job(self, destination_vault, recovery_point, region,
                          dest_account, retention_period, svc.start_ok, svc.job_id)
      d == start_copy_job(self, destination_vault, recovery_point, region,
                          dest_account, retention_period, svc.status_ok, svc.job_id)
  IN  IF c.ok THEN Returned(<<c>>, c.response)
      ELSE IF d.ok THEN Returned(<<c, d>>, d.response) ELSE Raised(<<c, d>>, d.response)

\* Vault.copy_backups
copy_backups(self, destination_vault, recovery_point, region, dest_account, retention_period, svc) ==
  LET c == start_copy_job(self, destination_vault, recovery_point, region,
                          dest_account, retention_period, svc.start_ok, svc.job_id)
  IN  IF c.ok THEN Returned(<<c>>, c.response) ELSE Raised(<<c>>, c.response)

\* Vault._describe_backup: one describe_recovery_point call
describe_backup(self, recovery_point, svc) ==
  Call("describe_recovery_point",
       [BackupVaultName |-> self.vault_name, RecoveryPointArn |-> recovery_point],
       svc.read1_ok,
       IF svc.read1_ok THEN svc.point1 ELSE ServiceError)

\* int(vol_size['BackupSizeInBytes']/1024/1024/1024)
VolSizeGiB(vol_size) ==
  PyInt(FloatDivKiB(FloatDivKiB(TrueDivKiB(vol_size.BackupSizeInBytes))))

\* Vault._get_vol_size that reads once more when the read fails
get_vol_size_retry(self, recovery_point, svc) ==
  LET request == [BackupVaultName |-> self.vault_name, RecoveryPointArn |-> recovery_point]
      c == Call("describe_recovery_point", request, svc.read2_ok,
                IF svc.read2_ok THEN svc.point2 ELSE ServiceError)
      d == Call("describe_recovery_point", request, svc.read1_ok,
                IF svc.read1_ok THEN svc.point2 ELSE ServiceError)
  IN  IF c.ok THEN Returned(<<c>>, VolSizeGiB(c.response))
      ELSE IF d.ok THEN Returned(<<c, d>>, VolSizeGiB(d.response))
      ELSE Raised(<<c, d>>, d.response)

\* Vault._get_vol_size: its own describe_recovery_point call, then the size
\* in GiB
get_vol_size(self, recovery_point, svc) ==
  LET c == Call("describe_recovery_point",
                [BackupVaultName |-> self.vault_name, RecoveryPointArn |-> recovery_point],
                svc.read2_ok,
                IF svc.read2_ok THEN svc.point2 ELSE ServiceError)
  IN  IF c.ok THEN Returned(<<c>>, VolSizeGiB(c.response)) ELSE Raised(<<c>>, c.response)

\* restore_ebs, lines 150-153
EncryptedFlag(rec_point_desc) ==
  IF rec_point_desc.IsEncrypted = TRUE THEN "true" ELSE "false"

\* the source's key taking the place of whatever the caller passed
ResolveKmsKey_source_wins(encrypted, kms_key, rec_point_desc) ==
  IF encrypted = "true" THEN Some(rec_point_desc.EncryptionKeyArn) ELSE kms_key

\* restore_ebs, lines 155-156
ResolveKmsKey(encrypted, kms_key, rec_point_desc) ==
  IF encrypted = "true" /\ kms_key = None
  THEN Some(rec_point_desc.EncryptionKeyArn)
  ELSE kms_key

\* the metadata with `kms_key is not None` in place of the truth test
EbsMetadata_not_none(az, encrypted, iops, kms_key, throughput, volumesize, vol_type) ==
  IF encrypted = "true" \/ kms_key # None
  THEN [availabilityzone |-> az, encrypted |-> encrypted, iops |-> iops,
        kmskeyid |-> kms_key, throughput |-> throughput,
        volumesize |-> volumesize, volumetype |-> vol_type]
  ELSE [availabilityzone |-> az, encrypted |-> encrypted, iops |-> iops,
        throughput |-> throughput,
        volumesize |-> volumesize, volumetype |-> vol_type]

\* restore_ebs, lines 158-176; kmskeyid keeps the optional value (<<key>>)
EbsMetadata(az, encrypted, iops, kms_key, throughput, volumesize, vol_type) ==
  IF encrypted = "true" \/ Truthy(kms_key)
  THEN [availabilityzone |-> az, encrypted |-> encrypted, iops |-> iops,
        kmskeyid |-> kms_key, throughput |-> throughput,
        volumesize |-> volumesize, volumetype |-> vol_type]
  ELSE [availabilityzone |-> az, encrypted |-> encrypted, iops |-> iops,
        throughput |-> throughput,
        volumesize |-> volumesize, volumetype |-> vol_type]

start_restore_job(self, recovery_point, metadata, ok, job_id) ==
  Call("start_restore_job",
       [RecoveryPointArn |-> recovery_point,
        Metadata |-> metadata,
        IamRoleArn |-> ServiceRole(self),
        CopySourceTagsToRestoredResource |-> TRUE],
       ok,
       IF ok THEN [JobId |-> job_id, RestoreJobId |-> job_id] ELSE ServiceError)

describe_restore_job(response, svc) ==
  Call("describe_restore_job",
       [RestoreJobId |-> response.RestoreJobId],
       svc.status_ok,
       IF svc.status_ok
       THEN [RestoreJobId |-> response.RestoreJobId, Status |-> svc.status]
       ELSE ServiceError)

\* the submission returning its own acknowledgment
ebs_submit_ack(self, recovery_point, metadata, svc) ==
  LET response == start_restore_job(self, recovery_point, metadata, svc.start_ok, svc.job_id)
  IN  IF response.ok THEN Returned(<<response>>, response.response)
      ELSE Raised(<<response>>, response.response)

\* restore_ebs, lines 178-189: submit, then describe the job and return that
ebs_submit(self, recovery_point, metadata, svc) ==
  LET response == start_restore_job(self, recovery_point, metadata, svc.start_ok, svc.job_id)
  IN  IF ~response.ok THEN Raised(<<response>>, response.response)
      ELSE LET restore == describe_restore_job(response.response, svc)
           IN  IF restore.ok THEN Returned(<<response, restore>>, restore.response)
               ELSE Raised(<<response, restore>>, restore.response)

\* Vault.restore_ebs
restore_ebs(self, recovery_point, az, iops, kms_key, throughput, vol_type, svc) ==
  LET read == describe_backup(self, recovery_point, svc)
  IN  IF ~read.ok THEN Raised(<<read>>, read.response)
      ELSE
        LET rec_point_desc == read.response
            encrypted == EncryptedFlag(rec_point_desc)
            key == ResolveKmsKey(encrypted, kms_key, rec_point_desc)
            size == get_vol_size(self, recovery_point, svc)
        IN  IF size.outcome = "raised" THEN Raised(<<read>> \o size.calls, size.value)
            ELSE
              LET metadata == EbsMetadata(az, encrypted, iops, key, throughput,
                                          Str(size.value), vol_type)
                  sub == ebs_submit(self, recovery_point, metadata, svc)
              IN  [sub EXCEPT !.calls = <<read>> \o size.calls \o @]

\* restore_ec2 asking for the job's status as restore_ebs does
restore_ec2_requery(self, recovery_point, instance_type, key_name, vpc_id, subnet_id, svc) ==
  ebs_submit(self, recovery_point,
             [instancetype |-> instance_type, keyname |-> key_name,
              vpcid |-> vpc_id, subnetid |-> subnet_id], svc)

\* Vault.restore_ec2
restore_ec2(self, recovery_point, instance_type, key_name, vpc_id, subnet_id, svc) ==
  LET metadata == [instancetype |-> instance_type, keyname |-> key_name,
                   vpcid |-> vpc_id, subnetid |-> subnet_id]
      response == start_restore_job(self, recovery_point, metadata, svc.start_ok, svc.job_id)
  IN  IF response.ok THEN Returned(<<response>>, response.response)
      ELSE Raised(<<response>>, response.response)

\* ------------------------------------------------------------------ inputs

DefaultRetention == 35
DefaultRegion == "us-east-1"
Date2015 == 0                       \* datetime(2015, 1, 1), day 0
Dates == 0..MaxDate

Sizes ==
  { Bytes(0, Limb - 1),                                \* one byte short of 1 GiB
    Bytes(10, 0),                                      \* 10737418240
    Bytes(Pow2(MantBits - LimbBits) - 1, Limb - 1),    \* 2^53 - 1
    Bytes(Pow2(MantBits - LimbBits), Limb - 1) }       \* 2^53 + 2^30 - 1

\* what describe_recovery_point may report about a recovery point
RecoveryPointDescriptions ==
  [IsEncrypted : BOOLEAN, EncryptionKeyArn : {"key-A"}, BackupSizeInBytes : Sizes]

KmsKeyArguments == {None, Some(""), Some("key-C")}

\* The behaviour of the Backup service during one method call: which of its
\* calls return, and what they report.
ServiceBehaviours(descriptions, statuses, listings) ==
  [list_ok : BOOLEAN, found : listings,
   read1_ok : BOOLEAN, point1 : descriptions,
   read2_ok : BOOLEAN, point2 : descriptions,
   start_ok : BOOLEAN, job_id : {JobId(Cardinality(jobs) + 1)},
   status_ok : BOOLEAN, status : statuses]

AnyDescription == CHOOSE d \in RecoveryPointDescriptions : TRUE

\* A method call that only lists, or only submits, reads no recovery point.
ListService ==
  {b \in ServiceBehaviours({AnyDescription}, {"PENDING"}, {<<>>, <<"rp-1">>}) :
     b.read1_ok /\ b.read2_ok /\ b.start_ok /\ b.status_ok}
SubmitService ==
  {b \in ServiceBehaviours({AnyDescription}, {"PENDING"}, {<<>>}) :
     b.list_ok /\ b.read1_ok /\ b.read2_ok}
RestoreService ==
  {b \in ServiceBehaviours(RecoveryPointDescriptions, {"PENDING", "RUNNING"}, {<<>>}) :
     b.list_ok}

\* ------------------------------------------------------------ state machine

NoCall == [op |-> "none", args |-> [none |-> TRUE], calls |-> <<>>,
           outcome |-> "none", value |-> [none |-> TRUE]]

Finished(op, args, run) ==
  [op |-> op, args |-> args, calls |-> run.calls,
   outcome |-> run.outcome, value |-> run.value]

Init ==
  /\ module = "unloaded"
  /\ defaults = [account |-> None, dest_account |-> None,
                 created_before |-> Date2015, created_after |-> Date2015]
  /\ stdout = <<>>
  /\ identityAvailable \in BOOLEAN
  /\ vault = None
  /\ jobs = {}
  /\ last = NoCall

\* `from .vault import Vault`: the class body evaluates the default
\* arguments, two of them by asking the identity service.  An exception
\* there ends the import.
ImportVault ==
  /\ module = "unloaded"
  /\ IF identityAvailable
     THEN \E now \in Dates \ {Date2015} :
            /\ defaults' = [account |-> Some(IdentityAccount),
                            dest_account |-> Some(IdentityAccount),
                            created_before |-> now,
                            created_after |-> Date2015]
            /\ module' = "vault_loaded"
     ELSE /\ module' = "failed"
          /\ UNCHANGED defaults
  /\ UNCHANGED <<stdout, identityAvailable, vault, jobs, last>>

\* check_aws_credentials(), called as the last line of __init__.py
CheckAwsCredentials ==
  /\ module = "vault_loaded"
  /\ stdout' = IF identityAvailable THEN stdout
               ELSE Append(stdout, "No valid credentials found")
  /\ module' = "loaded"
  /\ UNCHANGED <<defaults, identityAvailable, vault, jobs, last>>

\* Credentials expire or arrive: the identity service stops or starts answering.
IdentityChange ==
  /\ identityAvailable' = ~identityAvailable
  /\ UNCHANGED <<module, defaults, stdout, vault, jobs, last>>

\* Vault(vault_name[, account]); identity_resolvable records what the identity
\* service would have answered while the constructor ran.
NewVault ==
  /\ module = "loaded"
  /\ last = NoCall
  /\ \E vault_name \in {"vault-a"}, account \in {None, Some(OtherAccount)} :
       LET self == VaultInit(vault_name,
                             IF account = None THEN defaults.account ELSE account,
                             DefaultRegion)
       IN  /\ vault' = Some(self)
           /\ last' = Finished("__init__",
                               [vault_name |-> vault_name,
                                account_given |-> account # None,
                                identity_resolvable |-> identityAvailable],
                               Returned(<<>>, self))
  /\ UNCHANGED <<module, defaults, stdout, identityAvailable, jobs>>

ListBackups ==
  /\ vault # None
  /\ last = NoCall
  /\ \E resource_type \in {"All", "EBS"},
        before \in {None} \cup {Some(d) : d \in Dates},
        after \in {None} \cup {Some(d) : d \in Dates},
        svc \in ListService :
       LET created_before == IF before = None THEN defaults.created_before ELSE before[1]
           created_after == IF after = None THEN defaults.created_after ELSE after[1]
       IN  last' = Finished("list_backups",
                            [resource_type |-> resource_type,
                             created_before |-> created_before,
                             created_after |-> created_after],
                            list_backups(vault[1], resource_type, created_before,
                                         created_after, svc))
  /\ UNCHANGED <<module, defaults, stdout, identityAvailable, vault, jobs>>

CopyBackups ==
  /\ vault # None
  /\ last = NoCall
  /\ Cardinality(jobs) < MaxJobs
  /\ \E region \in {DefaultRegion, "eu-west-1"},
        account \in {None, Some(OtherAccount)},
        retention_period \in {DefaultRetention, 7},
        svc \in SubmitService :
       LET dest_account == IF account = None THEN defaults.dest_account ELSE account
           run == copy_backups(vault[1], "vault-b", "rp-1", region, dest_account,
                               retention_period, svc)
       IN  /\ last' = Finished("copy_backups",
                               [destination_vault |-> "vault-b",
                                recovery_point |-> "rp-1",
                                region |-> region,
                                dest_account |-> dest_account,
                                retention_period |-> retention_period],
                               run)
           /\ jobs' = jobs \cup JobsStarted(run.calls)
  /\ UNCHANGED <<module, defaults, stdout, identityAvailable, vault>>

RestoreEbs ==
  /\ vault # None
  /\ last = NoCall
  /\ Cardinality(jobs) < MaxJobs
  /\ \E kms_key \in KmsKeyArguments, svc \in RestoreService :
       LET run == restore_ebs(vault[1], "rp-1", "us-east-1a", "3000", kms_key,
                              "125", "gp3", svc)
       IN  /\ last' = Finished("restore_ebs",
                               [recovery_point |-> "rp-1", az |-> "us-east-1a",
                                iops |-> "3000", kms_key |-> kms_key,
                                throughput |-> "125", vol_type |-> "gp3"],
                               run)
           /\ jobs' = jobs \cup JobsStarted(run.calls)
  /\ UNCHANGED <<module, defaults, stdout, identityAvailable, vault>>

RestoreEc2 ==
  /\ vault # None
  /\ last = NoCall
  /\ Cardinality(jobs) < MaxJobs
  /\ \E instance_type \in {"t3.micro", "m5.large"}, svc \in SubmitService :
       LET run == restore_ec2(vault[1], "rp-1", instance_type, "key-pair",
                              "vpc-1", "subnet-1", svc)
       IN  /\ last' = Finished("restore_ec2",
                               [recovery_point |-> "rp-1",
                                instance_type |-> instance_type,
                                key_name |-> "key-pair", vpc_id |-> "vpc-1",
                                subnet_id |-> "subnet-1"],
                               run)
           /\ jobs' = jobs \cup JobsStarted(run.calls)
  /\ UNCHANGED <<module, defaults, stdout, identityAvailable, vault>>

\* The result (or the exception) has reached the caller, who may call again.
Return ==
  /\ last # NoCall
  /\ last' = NoCall
  /\ UNCHANGED <<module, defaults, stdout, identityAvailable, vault, jobs>>

Next ==
  \/ ImportVault
  \/ CheckAwsCredentials
  \/ IdentityChange
  \/ NewVault
  \/ ListBackups
  \/ CopyBackups
  \/ RestoreEbs
  \/ RestoreEc2
  \/ Return

Spec == Init /\ [][Next]_vars

\* ------------------------------------------------------------------ claims

CallsTo(op) == {i \in 1..Len(last.calls) : last.calls[i].op = op}

FailedCalls == {i \in 1..Len(last.calls) : ~last.calls[i].ok}

\* restore_ebs got as far as submitting the restore job
EbsSubmitted == last.op = "restore_ebs" /\ CallsTo("start_restore_job") # {}

\* the Metadata argument of the start_restore_job call
SubmittedMetadata ==
  last.calls[CHOOSE i \in CallsTo("start_restore_job") : TRUE].request.Metadata

\* what the first and the second describe_recovery_point call reported
FirstRead == last.calls[1].response
SecondRead == last.calls[2].response

\* C1, as claimed: list_backups called with created_after later than
\* created_before raises InvalidArgument, and has then issued no external call.
C1_RejectsInvertedRange ==
  (last.op = "list_backups" /\ last.args.created_after > last.args.created_before)
    => /\ last.outcome = "raised"
       /\ last.value = [Error |-> "InvalidArgument"]
       /\ last.calls = <<>>

\* C1, amended: list_backups does not look at the date range.  Whatever the
\* dates and the resource type, it issues exactly one
\* list_recovery_points_by_backup_vault call that carries both dates unchanged
\* (and the resource type only when it is not 'All'); it raises exactly when
\* that call raises, and what it returns or raises is what the call gave.
C1_PassesRangeThrough ==
  last.op = "list_backups"
    => /\ Len(last.calls) = 1
       /\ last.calls[1].op = "list_recovery_points_by_backup_vault"
       /\ last.calls[1].request.ByCreatedBefore = last.args.created_before
       /\ last.calls[1].request.ByCreatedAfter = last.args.created_after
       /\ ("ByResourceType" \in DOMAIN last.calls[1].request)
            <=> (last.args.resource_type # "All")
       /\ (last.outcome = "raised") <=> ~last.calls[1].ok
       /\ last.value = last.calls[1].response

C1_Witness ==
  /\ last.op = "list_backups"
  /\ last.args.created_after > last.args.created_before
  /\ last.args.resource_type = "EBS"
  /\ last.outcome = "returned"
  /\ Len(last.calls) = 1

\* C2, as claimed: the submitted metadata has the key kmskeyid if and only if
\* the recovery point is encrypted or the caller passed a kms_key (anything
\* but None, the empty string included).
C2_KmsKeyIffSupplied ==
  EbsSubmitted
    => (("kmskeyid" \in DOMAIN SubmittedMetadata)
          <=> (FirstRead.IsEncrypted \/ last.args.kms_key # None))

\* C2, amended: the submitted metadata has the key kmskeyid if and only if the
\* recovery point is encrypted or the caller passed a non-empty kms_key.
C2_KmsKeyIffNonEmpty ==
  EbsSubmitted
    => (("kmskeyid" \in DOMAIN SubmittedMetadata)
          <=> \/ FirstRead.IsEncrypted
              \/ (last.args.kms_key # None /\ last.args.kms_key # Some("")))

C2_Witness ==
  /\ EbsSubmitted
  /\ ~FirstRead.IsEncrypted
  /\ last.args.kms_key = Some("")
  /\ "kmskeyid" \notin DOMAIN SubmittedMetadata

C4_VolumeSizeIsFloorGiB ==
  EbsSubmitted
    => SubmittedMetadata.volumesize = Str(SecondRead.BackupSizeInBytes.gib)

\* C5, as claimed: a restore_ebs call that returns has issued exactly one
\* describe_recovery_point call, before start_restore_job.
C5_OneDescribe ==
  (last.op = "restore_ebs" /\ last.outcome = "returned")
    => /\ Cardinality(CallsTo("describe_recovery_point")) = 1
       /\ \A i \in CallsTo("describe_recovery_point") :
            \A j \in CallsTo("start_restore_job") : i < j

\* C5, amended: a restore_ebs call that returns has issued exactly two
\* describe_recovery_point calls, both before start_restore_job; the encryption
\* flag is that of the first read and the size that of the second.
C5_TwoDescribes ==
  (last.op = "restore_ebs" /\ last.outcome = "returned")
    => /\ CallsTo("describe_recovery_point") = {1, 2}
       /\ CallsTo("start_restore_job") = {3}
       /\ SubmittedMetadata.encrypted = (IF FirstRead.IsEncrypted THEN "true" ELSE "false")
       /\ SubmittedMetadata.volumesize = Str(VolSizeGiB(SecondRead))

C5_Witness ==
  /\ last.op = "restore_ebs"
  /\ last.outcome = "returned"
  /\ Cardinality(CallsTo("describe_recovery_point")) = 2
  /\ FirstRead.BackupSizeInBytes # SecondRead.BackupSizeInBytes
  /\ SubmittedMetadata.volumesize = "10"

\* C6: restore_ec2 issues exactly one external call, start_restore_job (no
\* describe_recovery_point, no describe_restore_job), and returns that call's
\* response unchanged.
C6_Ec2SubmitsOnly ==
  last.op = "restore_ec2"
    => /\ Len(last.calls) = 1
       /\ last.calls[1].op = "start_restore_job"
       /\ (last.outcome = "returned") <=> last.calls[1].ok
       /\ last.value = last.calls[1].response

C6_Witness ==
  /\ last.op = "restore_ec2"
  /\ last.outcome = "returned"
  /\ last.value = [JobId |-> "job-1", RestoreJobId |-> "job-1"]

\* C7: in restore_ebs a start_restore_job that returned is followed directly by
\* describe_restore_job for the RestoreJobId it returned, which is the last
\* call; what restore_ebs returns is that call's response, not the submission's.
C7_ReturnsJobStatus ==
  last.op = "restore_ebs"
    => /\ \A i \in CallsTo("start_restore_job") :
            last.calls[i].ok
              => /\ Len(last.calls) = i + 1
                 /\ last.calls[i + 1].op = "describe_restore_job"
                 /\ last.calls[i + 1].request.RestoreJobId
                      = last.calls[i].response.RestoreJobId
                 /\ last.outcome = "returned"
                      => /\ last.value = last.calls[i + 1].response
                         /\ last.value # last.calls[i].response
       /\ last.outcome = "returned" => CallsTo("describe_restore_job") # {}

C7_Witness ==
  /\ last.op = "restore_ebs"
  /\ last.outcome = "returned"
  /\ last.value = [RestoreJobId |-> "job-1", Status |-> "RUNNING"]

\* C8, as claimed: the destination vault reference passed to start_copy_job is
\* vault:<region>:<account>:backup-vault:<name>.
C8_VaultTemplate ==
  last.op = "copy_backups"
    => last.calls[1].request.DestinationBackupVaultArn
         = "vault:" \o last.args.region \o ":" \o last.args.dest_account[1]
             \o ":backup-vault:" \o last.args.destination_vault

\* C8, amended: the destination vault reference passed to start_copy_job is
\* arn:aws:backup:<region>:<account>:backup-vault:<name>.
C8_ArnTemplate ==
  last.op = "copy_backups"
    => last.calls[1].request.DestinationBackupVaultArn
         = "arn:aws:backup:" \o last.args.region \o ":" \o last.args.dest_account[1]
             \o ":backup-vault:" \o last.args.destination_vault

C8_Witness ==
  /\ last.op = "copy_backups"
  /\ last.args.region = "eu-west-1"
  /\ last.args.dest_account = Some(OtherAccount)
  /\ last.calls[1].request.DestinationBackupVaultArn
       = "arn:aws:backup:eu-west-1:222222222222:backup-vault:vault-b"

\* C9, as claimed: a Vault created without an explicit account while the
\* identity service cannot resolve the account fails with
\* CredentialsUnavailable, and no Vault has None as its account.
C9_FailsWithoutIdentity ==
  /\ (last.op = "__init__" /\ ~last.args.account_given
        /\ ~last.args.identity_resolvable)
       => /\ last.outcome = "raised"
          /\ last.value = [Error |-> "CredentialsUnavailable"]
  /\ vault # None => vault[1].account # None

\* C10, as claimed: when restore_ebs, restore_ec2 or copy_backups raises, the
\* call has started no job, and no external call follows the failed one.
C10_NoEffectBeforeError ==
  (last.op \in {"restore_ebs", "restore_ec2", "copy_backups"} /\ last.outcome = "raised")
    => /\ JobsStarted(last.calls) = {}
       /\ FailedCalls = {Len(last.calls)}

\* C10, amended: when restore_ebs, restore_ec2 or copy_backups raises, the
\* failed external call is its last one (no retry), and the call has started a
\* job exactly when it is restore_ebs and the failed call is
\* describe_restore_job: the restore job submitted just before exists.
C10_EffectOnlyBeforeStatusError ==
  (last.op \in {"restore_ebs", "restore_ec2", "copy_backups"} /\ last.outcome = "raised")
    => /\ FailedCalls = {Len(last.calls)}
       /\ (\E i \in 1..Len(last.calls) : last.calls[i].ok /\ last.calls[i].op \in StartOps)
            <=> /\ last.op = "restore_ebs"
                /\ last.calls[Len(last.calls)].op = "describe_restore_job"

C10_Witness ==
  /\ last.op = "restore_ebs"
  /\ last.outcome = "raised"
  /\ last.calls[Len(last.calls)].op = "describe_restore_job"
  /\ [id |-> "job-1", op |-> "start_restore_job"] \in jobs

====
